---- MODULE Spec2Model ----
(***************************************************************************)
(* Model of the cookie lifecycle manager (src/src/cookieManager.js) and of *)
(* the part of the YouTube Music plugin that consumes its notifications    *)
(* (src/unnamed/part_001).                                                 *)
(*                                                                         *)
(* JavaScript runs one task at a time: every action below is the code that *)
(* runs between two suspension points (await), so an action is atomic      *)
(* exactly where the code is.                                              *)
(***************************************************************************)
EXTENDS Integers, Sequences, FiniteSets, TLC

(***************************************************************************)
(* Bounds of the model.                                                    *)
(***************************************************************************)
\* setInterval handles the runtime can hand out
MaxTimers == 2
\* polls of the login wait before the 5 minute bound is certainly reached
\* (300000 ms / 2000 ms = 150 in the code, scaled down)
MaxWaitPolls == 2
\* cookies in a set handed to the manager's API
MaxCookies == 2
\* this.refreshInterval, in units of the model's clock (cookieManager.js:13)
RefreshInterval == 2

MaxTracks == 4

MaxViews == 2

MaxLimit == 2

(***************************************************************************)
(* Program constants.                                                      *)
(***************************************************************************)
\* cookieManager.js:14, the default lead time in milliseconds
RefreshBeforeExpiry == 3600000

DefaultMaxViews == 10

DefaultLimit == 3

TimerIds == 1..MaxTimers
\* the value of this.refreshTimer when no timer is set (null)
NoTimer == 0

(***************************************************************************)
(* Cookies.  A stored cookie (EditThisCookie format) keeps the fields the  *)
(* manager reads: name and expirationDate, which is optional: Undefined    *)
(* when the field is absent, Num(e) when it holds the number e.  A browser *)
(* cookie (Puppeteer format) has the number expires, -1 for a session      *)
(* cookie.                                                                 *)
(***************************************************************************)
Undefined == <<>>

Num(e) == <<e>>

\* the truthiness of an optional number: `if (v)`, `v || d`
Truthy(v) == v # Undefined /\ v[1] # 0

StoredCookie(n, e) == [tok |-> "cookie", name |-> n, expirationDate |-> e]

BrowserCookie(n, e) == [name |-> n, expires |-> e]

\* Math.floor(Date.now() / 1000) at the validations of this model
Now == 10000

\* what page.cookies() may return after a session replay
FreshJars ==
    { <<>>,
      <<BrowserCookie("SID", 50000), BrowserCookie("PREF", -1)>> }

\* cookieManager.js:174-183, stored -> browser (expires: expirationDate || -1)
ToPuppeteer(cookies) ==
    [i \in 1..Len(cookies) |->
        BrowserCookie(cookies[i].name,
                      IF Truthy(cookies[i].expirationDate)
                      THEN cookies[i].expirationDate[1] ELSE -1)]

\* cookieManager.js:244-255, browser -> stored
\* (expirationDate: expires && expires > 0 ? expires : undefined)
FormatCookies(jar) ==
    [i \in 1..Len(jar) |->
        StoredCookie(jar[i].name,
                     IF jar[i].expires # 0 /\ jar[i].expires > 0
                     THEN Num(jar[i].expires) ELSE Undefined)]

(***************************************************************************)
(* The credential file.  Its content is a sequence of tokens: JSON text of *)
(* an array is "[" objects "]", and the text of an object holds the key    *)
(* expirationDate or not.  A file that does not exist has exists = FALSE.  *)
(***************************************************************************)
Open == [tok |-> "[", name |-> "", hasExpiry |-> FALSE, expiry |-> 0]

Close == [tok |-> "]", name |-> "", hasExpiry |-> FALSE, expiry |-> 0]

\* the text of a JSON value that is not an array, such as {}
ObjectText == [tok |-> "{}", name |-> "", hasExpiry |-> FALSE, expiry |-> 0]

NoFile == [exists |-> FALSE, data |-> <<>>]

\* JsonRecord, had the key been written only for a truthy value
JsonRecordTruthy(c) ==
    [tok |-> "cookie", name |-> c.name,
     hasExpiry |-> Truthy(c.expirationDate),
     expiry |-> IF Truthy(c.expirationDate) THEN c.expirationDate[1] ELSE 0]

\* JSON.stringify of one cookie: a key whose value is undefined is left out
JsonRecord(c) ==
    [tok |-> "cookie", name |-> c.name,
     hasExpiry |-> c.expirationDate # Undefined,
     expiry |-> IF c.expirationDate # Undefined
                THEN c.expirationDate[1] ELSE 0]

\* JSON.parse of one object of the array
ParseRecord(t) ==
    StoredCookie(t.name, IF t.hasExpiry THEN Num(t.expiry) ELSE Undefined)

\* JSON.stringify(cookies, null, 2), cookieManager.js:66
Stringify(cookies) ==
    <<Open>> \o [i \in 1..Len(cookies) |-> JsonRecord(cookies[i])] \o <<Close>>

FileOf(cookies) == [exists |-> TRUE, data |-> Stringify(cookies)]

\* JSON.parse succeeds on the text of one array
WellFormed(data) ==
    /\ Len(data) >= 2
    /\ data[1] = Open
    /\ data[Len(data)] = Close
    /\ \A i \in 2..(Len(data) - 1) : data[i].tok = "cookie"

\* cookieManager.js:44-56: a missing file and an unparsable one both give []
ParseFile(f) ==
    IF f.exists /\ WellFormed(f.data)
    THEN [i \in 1..(Len(f.data) - 2) |-> ParseRecord(f.data[i + 1])]
    ELSE <<>>

\* fs.writeFile opens with flag 'w', which creates or truncates the file
Truncated == [exists |-> TRUE, data |-> <<>>]

\* and then writes the text at offset 0 of whatever the file holds by then
WriteAt0(f, text) ==
    [exists |-> TRUE,
     data |-> text \o SubSeq(f.data, Len(text) + 1, Len(f.data))]

(***************************************************************************)
(* validateCookies, cookieManager.js:80-127                                *)
(***************************************************************************)
\* ValidateCookies, had the lead time been left out of the threshold
ValidateCookiesNoLead(cookies, now) ==
    IF Len(cookies) = 0
    THEN [valid |-> FALSE, expired |-> FALSE, expiringSoon |-> FALSE,
          message |-> "No cookies provided"]
    ELSE
      LET hasExpired == \E i \in 1..Len(cookies) :
                           /\ Truthy(cookies[i].expirationDate)
                           /\ cookies[i].expirationDate[1] < now
          expiringSoon == \E i \in 1..Len(cookies) :
                           /\ Truthy(cookies[i].expirationDate)
                           /\ ~(cookies[i].expirationDate[1] < now)
                           /\ cookies[i].expirationDate[1] < now
      IN [valid |-> ~hasExpired, expired |-> hasExpired,
          expiringSoon |-> expiringSoon,
          message |-> IF hasExpired THEN "Some cookies have expired"
                      ELSE IF expiringSoon THEN "Cookies expiring soon"
                      ELSE "All cookies are valid"]

ValidateCookies(cookies, now) ==
    IF Len(cookies) = 0
    THEN [valid |-> FALSE, expired |-> FALSE, expiringSoon |-> FALSE,
          message |-> "No cookies provided"]
    ELSE
      LET expirySoonThreshold == now + (RefreshBeforeExpiry \div 1000)
          hasExpired == \E i \in 1..Len(cookies) :
                           /\ Truthy(cookies[i].expirationDate)
                           /\ cookies[i].expirationDate[1] < now
          expiringSoon == \E i \in 1..Len(cookies) :
                           /\ Truthy(cookies[i].expirationDate)
                           /\ ~(cookies[i].expirationDate[1] < now)
                           /\ cookies[i].expirationDate[1] < expirySoonThreshold
      IN [valid |-> ~hasExpired, expired |-> hasExpired,
          expiringSoon |-> expiringSoon,
          message |-> IF hasExpired THEN "Some cookies have expired"
                      ELSE IF expiringSoon THEN "Cookies expiring soon"
                      ELSE "All cookies are valid"]

(***************************************************************************)
(* State.                                                                  *)
(***************************************************************************)
VARIABLES
    cookiesPath,    \* this.cookiesPath
    files,          \* the file system: path -> file
    installed,      \* whether require('puppeteer') succeeds in this install
    puppeteer,      \* this.puppeteer is set (lazy loaded)
    headless,       \* this.headless
    autoRefresh,    \* this.autoRefresh
    hooks,          \* who registered the callbacks: "plugin", "custom", "none"
    refreshTimer,   \* this.refreshTimer: NoTimer or a setInterval handle
    activeTimers,   \* the interval timers the runtime holds
    runs,           \* the refreshCookies() / tick invocations, by slot
    slots,          \* the invocation slots this run of the model uses
    timed,          \* whether this run of the model keeps time
    sinceFire,      \* time since the timer was set or last fired
    agent,          \* the plugin's this.agent: null or built from a set
    optionsCookies, \* the plugin's this.options.cookies
    lastSaved,      \* history: the set whose write to the file finished last
    lastNotified,   \* history: the set of the last onCookiesUpdated call
    lastRebuild,    \* history: what that call did to the agent
    writeFailed,    \* history: a write to the file failed part-way
    lastCall,       \* history: the last call of start/stop/destroy
    adapter,        \* the plugin beyond its agent: init, the host's options
    api,            \* a direct call of the manager's API and its result
    request         \* a resolve / search / related call of the plugin

vars == <<cookiesPath, files, installed, puppeteer, headless, autoRefresh,
          hooks, refreshTimer, activeTimers, runs, slots, timed, sinceFire,
          agent, optionsCookies, lastSaved, lastNotified, lastRebuild,
          writeFailed, lastCall, adapter, api, request>>

\* the path given at construction (options.cookiesPath)
ConfiguredPath == "cookies.json"

Paths == {ConfiguredPath}

\* another path a caller may name
OtherPath == "backup.json"

\* An invocation in flight is held in a slot: one for a manual call of
\* refreshCookies(), two for interval callbacks (a tick and the next one).
TickSlots == {"tick", "tick2"}

Runs == {"manual"} \cup TickSlots

\* "no set": the value of a set-valued field before any set was stored
None == <<[tok |-> "none", name |-> "", expirationDate |-> Undefined]>>

NullAgent == [built |-> FALSE, cookies |-> <<>>]

\* ytdl.createAgent(cookies, agentOptions), part_001:110
CreateAgent(cookies) == [built |-> TRUE, cookies |-> cookies]

\* credential files the manager may find: none, a text that does not
\* parse, a set that is valid, one with an expired cookie, one expiring
\* within the lead time
MissingFile == NoFile

MalformedFile == [exists |-> TRUE, data |-> <<Open>>]

ValidFile == FileOf(<<StoredCookie("SID", Num(50000))>>)

ExpiredFile ==
    FileOf(<<StoredCookie("SID", Num(5000)), StoredCookie("PREF", Undefined)>>)

SoonFile == FileOf(<<StoredCookie("SID", Num(12000))>>)

InitialFiles == {MissingFile, MalformedFile, ValidFile, ExpiredFile, SoonFile}

IdleRun ==
    [pc |-> "idle", browser |-> "none", puppeteerCookies |-> <<>>,
     fresh |-> None, pending |-> "ok", ret |-> "none",
     errCalls |-> 0, updCalls |-> 0, polls |-> 0, waited |-> FALSE]

NoCall == [op |-> "none", hadTimer |-> FALSE, again |-> FALSE, during |-> {}]

\* the plugin after its constructor (part_001:12-53): init not called, no
\* getStreamURL made; callerHooks: the caller passed onCookiesUpdated and
\* onRefreshError in options.cookieRefresh
NewAdapter(callerHooks) ==
    [init |-> "new", hostAgent |-> NullAgent, stream |-> "idle",
     streamed |-> FALSE, infoAgent |-> NullAgent, formatAgent |-> NullAgent,
     agentAtCall |-> NullAgent, rebuiltAtCall |-> FALSE,
     callerHooks |-> callerHooks, callerUpdCalls |-> 0, callerErrCalls |-> 0,
     formats |-> "none", streamError |-> <<>>]

\* no call of the manager's API in progress
NoApi == [pc |-> "idle", op |-> "none", arg |-> <<>>, kind |-> "array",
          result |-> <<>>, resultKind |-> "none", raised |-> FALSE,
          readFailed |-> FALSE, saved |-> None]

\* a URL, as the parts the plugin's substring tests and patterns look at:
\* host, path segments, and the query parameters list and v
Url(host, path, list, v) ==
    [host |-> host, path |-> path, list |-> list, v |-> v]

NoUrl == Url("", <<>>, Undefined, Undefined)

NullId == ""

\* an upstream answer: a rejection with a message (possibly the empty
\* one), null, an object without the track list, one whose track list is
\* no array, or one with tracks; kind "none" while nothing was answered
Response(kind, tracks, message) ==
    [kind |-> kind, tracks |-> tracks, message |-> message]

\* no resolve / search / related call in progress
NoRequest ==
    [pc |-> "idle", op |-> "none", maxViews |-> DefaultMaxViews,
     parallel |-> TRUE, url |-> NoUrl, type |-> "none", id |-> NullId,
     limit |-> Undefined, song |-> NullId, response |-> Response("none", <<>>, <<>>),
     outcome |-> "none", songs |-> <<>>, converted |-> 0, message |-> <<>>]

Free(r) == runs[r].pc \in {"idle", "done"}

InFlight(r) == ~Free(r)

\* the slot the next interval callback takes
FreeTickSlot(r) ==
    /\ r \in slots \cap TickSlots
    /\ Free(r)
    /\ r = "tick2" => ~("tick" \in slots /\ Free("tick"))

InitWith(slotSets, hookSet, fileSet, keepsTime) ==
    /\ cookiesPath = ConfiguredPath
    /\ files \in [Paths -> fileSet]
    /\ installed \in BOOLEAN
    /\ puppeteer = FALSE
    /\ headless \in BOOLEAN
    /\ autoRefresh \in BOOLEAN
    /\ hooks \in hookSet
    /\ refreshTimer = NoTimer
    /\ activeTimers = {}
    /\ runs = [r \in Runs |-> IdleRun]
    /\ slots \in slotSets
    /\ timed = keepsTime
    /\ sinceFire = 0
    /\ agent = NullAgent
    /\ optionsCookies = None
    /\ lastSaved = None
    /\ lastNotified = None
    /\ lastRebuild = "none"
    /\ writeFailed = FALSE
    /\ lastCall = NoCall
    /\ adapter = NewAdapter(FALSE)
    /\ api = NoApi
    /\ request = NoRequest

\* one invocation at a time: a manual one, or the interval callback
Init ==
    InitWith({{"manual"}, {"tick"}}, {"plugin", "custom", "none"},
             InitialFiles, FALSE)

config == <<installed, headless, autoRefresh, hooks, slots, timed>>

timerVars == <<refreshTimer, activeTimers, sinceFire, lastCall>>

pluginVars == <<agent, optionsCookies, lastNotified, lastRebuild>>

fileVars == <<files, lastSaved, writeFailed>>

callVars == <<adapter, api, request>>

(***************************************************************************)
(* refreshCookies, cookieManager.js:134-278.  onRefreshError is one of the *)
(* handlers this repository registers (part_001:76-78, the example's       *)
(* 234-236): it logs and returns.                                          *)
(***************************************************************************)
\* The invocation completes with `ret`; what only its steps used is
\* dropped with it.
Completed(run, ret) ==
    [run EXCEPT !.pc = "done", !.ret = ret, !.puppeteerCookies = <<>>,
                !.polls = 0, !.waited = FALSE, !.pending = "ok",
                !.fresh = IF ret = "set" THEN @ ELSE None]

\* Caught, had the catch block returned null without reporting
CaughtSilently(run) == Completed(run, "null")

\* the outer catch (271-277): report through onRefreshError, return null
Caught(run) ==
    Completed([run EXCEPT !.errCalls = IF hooks # "none" THEN @ + 1 ELSE @],
              "null")

\* Thrown, had there been no finally block
ThrownNoFinally(run) == Caught(run)

\* an exception inside the inner try (161-267): the finally block runs
\* first and calls browser.close()
Thrown(run) == [run EXCEPT !.pc = "close", !.pending = "err"]

\* return formattedCookies (267): the finally block calls browser.close()
Returning(run) == [run EXCEPT !.pc = "close", !.pending = "ok"]

\* require('puppeteer') threw (140-146): report and return null
Unavailable(run) ==
    Completed([run EXCEPT !.errCalls = IF hooks # "none" THEN @ + 1 ELSE @],
              "null")

\* Started, had the failure of require been ignored
StartedUnchecked(run) == [run EXCEPT !.pc = "launch"]

\* lines 135-151, up to the first await: the lazy require and the launch
Started(run) ==
    IF ~puppeteer /\ ~installed
    THEN Unavailable(run)
    ELSE [run EXCEPT !.pc = "launch"]

(***************************************************************************)
(* The plugin's side of a notification, part_001:71-75 and 91-128          *)
(***************************************************************************)
\* InitializeAgent, had the test for an empty set been left out
InitializeAgentAlways(cookies, old, createOk) ==
    IF createOk THEN CreateAgent(cookies) ELSE old

\* InitializeAgent, had the agent been cleared before the attempt
InitializeAgentClearing(cookies, old, createOk) ==
    IF Len(cookies) > 0 /\ createOk THEN CreateAgent(cookies) ELSE NullAgent

\* initializeAgent with options.cookies = cookies: an empty set builds
\* nothing (109, 122-124) and a createAgent that throws is caught (125)
InitializeAgent(cookies, old, createOk) ==
    IF Len(cookies) > 0 /\ createOk THEN CreateAgent(cookies) ELSE old

Rebuild(cookies, createOk) ==
    IF Len(cookies) = 0 THEN "empty"
    ELSE IF createOk THEN "built" ELSE "failed"

\* lines 263-267 after saveCookies returned: the callback, then the return
Notified(r, run) ==
    LET called == [run EXCEPT !.updCalls = @ + 1]
    IN CASE hooks = "none" ->
              /\ runs' = [runs EXCEPT ![r] = Returning(run)]
              /\ UNCHANGED pluginVars
         [] hooks = "plugin" ->
              /\ runs' = [runs EXCEPT ![r] = Returning(called)]
              /\ optionsCookies' = run.fresh
              /\ lastNotified' = run.fresh
              /\ \E createOk \in BOOLEAN :
                   /\ agent' = InitializeAgent(run.fresh, agent, createOk)
                   /\ lastRebuild' = Rebuild(run.fresh, createOk)
         [] hooks = "custom" ->
              /\ \E throws \in BOOLEAN :
                   runs' = [runs EXCEPT ![r] = IF throws THEN Thrown(called)
                                                ELSE Returning(called)]
              /\ lastNotified' = run.fresh
              /\ UNCHANGED <<agent, optionsCookies, lastRebuild>>

(***************************************************************************)
(* refreshCookies, step by step                                            *)
(***************************************************************************)
\* a step of invocation r that touches nothing but the invocation
OnlyRun(r, new) ==
    /\ runs' = [runs EXCEPT ![r] = new]
    /\ UNCHANGED <<cookiesPath, puppeteer, config, callVars, timerVars, pluginVars,
                   fileVars>>

\* a manual call of refreshCookies() (README "Manual Cookie Refresh")
ManualRefresh ==
    /\ "manual" \in slots
    /\ Free("manual")
    /\ runs' = [runs EXCEPT !["manual"] = Started(IdleRun)]
    /\ puppeteer' = (puppeteer \/ installed)
    /\ UNCHANGED <<cookiesPath, config, callVars, timerVars, pluginVars, fileVars>>

\* await this.puppeteer.launch(...) settles (151-159); a rejection is
\* outside the inner try, so no close
LaunchDone(r) ==
    /\ runs[r].pc = "launch"
    /\ \E ok \in BOOLEAN :
         OnlyRun(r, IF ok
                    THEN [runs[r] EXCEPT !.pc = "newPage", !.browser = "open"]
                    ELSE Caught(runs[r]))

\* await browser.newPage() settles (162)
NewPageDone(r) ==
    /\ runs[r].pc = "newPage"
    /\ \E ok \in BOOLEAN :
         OnlyRun(r, IF ok
                    THEN [runs[r] EXCEPT !.pc = "setUserAgent"]
                    ELSE Thrown(runs[r]))

\* the call of page.goto (193-197)
Navigate(run) == [run EXCEPT !.pc = "goto", !.puppeteerCookies = <<>>]

\* await page.setUserAgent(...) settles (165-167); then
\* loadCookies(this.cookiesPath) runs to its readFile (30-45)
SetUserAgentDone(r) ==
    /\ runs[r].pc = "setUserAgent"
    /\ \E ok \in BOOLEAN :
         OnlyRun(r, IF ~ok THEN Thrown(runs[r])
                    ELSE IF files[cookiesPath].exists
                    THEN [runs[r] EXCEPT !.pc = "readFile"]
                    ELSE Navigate(runs[r]))

\* await fs.readFile settles and the text is parsed (45-55); a non-empty
\* set is converted and handed to page.setCookie (172-185)
ReadFileDone(r) ==
    /\ runs[r].pc = "readFile"
    /\ LET existingCookies == ParseFile(files[cookiesPath])
       IN OnlyRun(r, IF Len(existingCookies) > 0
                     THEN [runs[r] EXCEPT
                             !.pc = "setCookie",
                             !.puppeteerCookies = ToPuppeteer(existingCookies)]
                     ELSE Navigate(runs[r]))

\* await page.setCookie(...) settles; a rejection is caught at 188
SetCookieDone(r) ==
    /\ runs[r].pc = "setCookie"
    /\ OnlyRun(r, Navigate(runs[r]))

\* await page.goto settles (194-197); then the probe is asked (200)
GotoDone(r) ==
    /\ runs[r].pc = "goto"
    /\ \E ok \in BOOLEAN :
         OnlyRun(r, IF ok
                    THEN [runs[r] EXCEPT !.pc = "probe"]
                    ELSE Thrown(runs[r]))

\* the 2 s wait before the read-back (238)
Settle(run) == [run EXCEPT !.pc = "settle", !.polls = 0]

\* MustWait, had the test of the headless mode been left out
MustWaitHeadless(isLoggedIn) == ~isLoggedIn

\* the test of line 209
MustWait(isLoggedIn) == ~isLoggedIn /\ ~headless

\* the probe settles (200-207) and the login wait is entered or not (209)
ProbeDone(r) ==
    /\ runs[r].pc = "probe"
    /\ \/ OnlyRun(r, Thrown(runs[r]))
       \/ \E isLoggedIn \in BOOLEAN :
            OnlyRun(r, IF MustWait(isLoggedIn)
                       THEN [runs[r] EXCEPT !.pc = "pollSleep",
                                            !.waited = TRUE]
                       ELSE Settle(runs[r]))

\* the 2 s timeout of one poll elapses (218) and the probe is asked (220)
PollSleepDone(r) ==
    /\ runs[r].pc = "pollSleep"
    /\ OnlyRun(r, [runs[r] EXCEPT !.pc = "pollProbe"])

\* the loop condition Date.now() - startTime < maxWaitTime (217) after
\* `polls` polls: each poll takes 2 s or more, so the bound may be reached
\* at any poll and is reached at the last
WaitOver(polls, timeUp) == timeUp \/ polls >= MaxWaitPolls

\* a poll's probe settles (220-231)
PollProbeDone(r) ==
    /\ runs[r].pc = "pollProbe"
    /\ LET polled == [runs[r] EXCEPT !.polls = @ + 1]
       IN \/ OnlyRun(r, Thrown(polled))
          \/ \E loggedIn \in BOOLEAN, timeUp \in BOOLEAN :
               OnlyRun(r, IF loggedIn \/ WaitOver(polled.polls, timeUp)
                          THEN Settle(polled)
                          ELSE [polled EXCEPT !.pc = "pollSleep"])

\* the settle timeout elapses (238) and page.cookies() is asked (241)
SettleDone(r) ==
    /\ runs[r].pc = "settle"
    /\ OnlyRun(r, [runs[r] EXCEPT !.pc = "readBack"])

\* ReadBackDone, had the callback been invoked in place of the save
ReadBackDoneNotifying(r) ==
    /\ runs[r].pc = "readBack"
    /\ \E freshCookies \in FreshJars :
         Notified(r, [runs[r] EXCEPT !.fresh = FormatCookies(freshCookies)])
    /\ UNCHANGED <<cookiesPath, puppeteer, config, callVars, timerVars, fileVars>>

\* await page.cookies() settles (241); the set is formatted (244-255) and
\* saveCookies calls fs.writeFile (260, 66)
ReadBackDone(r) ==
    /\ runs[r].pc = "readBack"
    /\ \/ OnlyRun(r, Thrown(runs[r]))
       \/ \E freshCookies \in FreshJars :
            OnlyRun(r, [runs[r] EXCEPT
                          !.pc = "saveOpen",
                          !.fresh = FormatCookies(freshCookies)])

(***************************************************************************)
(* saveCookies, cookieManager.js:64-73.  fs.writeFile is an open that      *)
(* truncates, then a write at offset 0, then the promise settles.          *)
(***************************************************************************)
\* the open settles; a failure (unwritable target) makes saveCookies
\* return false and refreshCookies goes on to the callback
SaveOpenDone(r) ==
    /\ runs[r].pc = "saveOpen"
    /\ \/ /\ files' = [files EXCEPT ![cookiesPath] = Truncated]
          /\ runs' = [runs EXCEPT ![r].pc = "saveWrite"]
          /\ UNCHANGED <<lastSaved, writeFailed, pluginVars>>
       \/ /\ Notified(r, runs[r])
          /\ UNCHANGED fileVars
    /\ UNCHANGED <<cookiesPath, puppeteer, config, callVars, timerVars>>

\* the write settles; one that fails leaves the truncated file
SaveWriteDone(r) ==
    /\ runs[r].pc = "saveWrite"
    /\ \/ /\ files' = [files EXCEPT
                         ![cookiesPath] = WriteAt0(@, Stringify(runs[r].fresh))]
          /\ lastSaved' = runs[r].fresh
          /\ UNCHANGED writeFailed
       \/ /\ writeFailed' = TRUE
          /\ UNCHANGED <<files, lastSaved>>
    /\ runs' = [runs EXCEPT ![r].pc = "saved"]
    /\ UNCHANGED <<cookiesPath, puppeteer, config, callVars, timerVars, pluginVars>>

\* await this.saveCookies(...) resumes refreshCookies (260-267)
SaveSettled(r) ==
    /\ runs[r].pc = "saved"
    /\ Notified(r, runs[r])
    /\ UNCHANGED <<cookiesPath, puppeteer, config, callVars, timerVars, fileVars>>

\* await browser.close() settles (269): the pending return or exception
\* goes on, or the rejection of close replaces it
CloseDone(r) ==
    /\ runs[r].pc = "close"
    /\ \E ok \in BOOLEAN :
         LET closed == [runs[r] EXCEPT
                          !.browser = IF ok THEN "closed" ELSE "closeFailed"]
         IN OnlyRun(r, IF ok /\ closed.pending = "ok"
                       THEN Completed(closed, "set")
                       ELSE Caught(closed))

(***************************************************************************)
(* The periodic timer, cookieManager.js:284-325 and 362-364                *)
(***************************************************************************)
\* ShouldRefresh, had the test left out expiringSoon
ShouldRefreshInvalidOnly(validation) == ~validation.valid

\* the test of line 303
ShouldRefresh(validation) == ~validation.valid \/ validation.expiringSoon

\* lines 301-308 with the set `cookies` that loadCookies returned
TickDecided(cookies) ==
    IF ShouldRefresh(ValidateCookies(cookies, Now))
    THEN Started(IdleRun)
    ELSE Completed(IdleRun, "skipped")

TickLoads(cookies) ==
    IF ShouldRefresh(ValidateCookies(cookies, Now))
    THEN puppeteer \/ installed
    ELSE puppeteer

\* setInterval(..., this.refreshInterval) (297, 312): the callback is due
\* every refreshInterval, whatever the previous callback is doing
TimerDue == timed => sinceFire >= RefreshInterval

\* the interval callback begins (297-300): loadCookies runs to its
\* readFile, or returns [] at once when the file does not exist
TickFire ==
    \E t \in activeTimers, r \in Runs :
        /\ FreeTickSlot(r)
        /\ TimerDue
        /\ sinceFire' = 0
        /\ IF files[cookiesPath].exists
           THEN /\ runs' = [runs EXCEPT ![r] = [IdleRun EXCEPT !.pc = "tickRead"]]
                /\ UNCHANGED puppeteer
           ELSE /\ runs' = [runs EXCEPT ![r] = TickDecided(<<>>)]
                /\ puppeteer' = TickLoads(<<>>)
        /\ UNCHANGED <<cookiesPath, config, callVars, refreshTimer, activeTimers,
                       lastCall, pluginVars, fileVars>>

\* the tick's readFile settles and the text is parsed (45-55, 300-308)
TickReadDone(r) ==
    /\ runs[r].pc = "tickRead"
    /\ LET cookies == ParseFile(files[cookiesPath])
       IN /\ runs' = [runs EXCEPT ![r] = TickDecided(cookies)]
          /\ puppeteer' = TickLoads(cookies)
    /\ UNCHANGED <<cookiesPath, config, callVars, timerVars, pluginVars, fileVars>>

\* setInterval hands out a handle that is not in use
NewTimer(t) ==
    /\ t \in TimerIds \ activeTimers
    /\ \A u \in TimerIds \ activeTimers : t <= u

\* history: which call it was and what it found
Called(op) ==
    [op |-> op,
     hadTimer |-> refreshTimer # NoTimer,
     again |-> lastCall.op = op,
     during |-> {r \in Runs : InFlight(r)}]

\* MayStart, had the test for a running timer been left out
MayStartUnguarded == autoRefresh

\* the guards of startAutoRefresh (285-293)
MayStart == autoRefresh /\ refreshTimer = NoTimer

\* the body of startAutoRefresh (284-313)
AutoRefreshStarted ==
    /\ IF MayStart
       THEN \E t \in TimerIds :
              /\ NewTimer(t)
              /\ refreshTimer' = t
              /\ activeTimers' = activeTimers \cup {t}
              /\ sinceFire' = 0
       ELSE UNCHANGED <<refreshTimer, activeTimers, sinceFire>>
    /\ lastCall' = Called("start")

StartAutoRefresh ==
    /\ AutoRefreshStarted
    /\ UNCHANGED <<cookiesPath, puppeteer, config, callVars, runs, pluginVars, fileVars>>

\* Stopped, had clearInterval been left out
StoppedKeepsInterval ==
    IF refreshTimer # NoTimer
    THEN /\ refreshTimer' = NoTimer
         /\ UNCHANGED <<activeTimers, sinceFire>>
    ELSE UNCHANGED <<refreshTimer, activeTimers, sinceFire>>

\* stopAutoRefresh (319-325)
Stopped ==
    IF refreshTimer # NoTimer
    THEN /\ activeTimers' = activeTimers \ {refreshTimer}
         /\ refreshTimer' = NoTimer
         /\ sinceFire' = 0
    ELSE UNCHANGED <<refreshTimer, activeTimers, sinceFire>>

StopAutoRefresh ==
    /\ Stopped
    /\ lastCall' = Called("stop")
    /\ UNCHANGED <<cookiesPath, puppeteer, config, callVars, runs, pluginVars, fileVars>>

\* Destroy, had it also abandoned the refreshes in progress
DestroyAborting ==
    /\ Stopped
    /\ lastCall' = Called("destroy")
    /\ runs' = [r \in Runs |-> IF InFlight(r) THEN Completed(runs[r], "null")
                                ELSE runs[r]]
    /\ UNCHANGED <<cookiesPath, puppeteer, config, callVars, pluginVars, fileVars>>

\* CookieManager.destroy (362-364)
Destroy ==
    /\ Stopped
    /\ lastCall' = Called("destroy")
    /\ UNCHANGED <<cookiesPath, puppeteer, config, callVars, runs, pluginVars, fileVars>>

\* YouTubeMusicPlugin.destroy (part_001:669-674)
PluginDestroy ==
    /\ hooks = "plugin"
    /\ Stopped
    /\ lastCall' = Called("pluginDestroy")
    /\ UNCHANGED <<cookiesPath, puppeteer, config, callVars, runs, pluginVars, fileVars>>

\* Time passes by one unit while a timer is set.  A timer that is due
\* fires first.
Advance ==
    /\ timed
    /\ activeTimers # {}
    /\ sinceFire < RefreshInterval
    /\ sinceFire' = sinceFire + 1
    /\ UNCHANGED <<cookiesPath, puppeteer, config, callVars, runs, refreshTimer,
                   activeTimers, lastCall, pluginVars, fileVars>>

(***************************************************************************)
(* The plugin, src/unnamed/part_001                                        *)
(***************************************************************************)
\* initializeCookieManager (59-85): the callbacks handed to the manager
\* are the plugin's own closures, whatever options.cookieRefresh holds
ManagerHooks(callerHooks) == "plugin"

\* the constructor's initializeAgent (50-52, 91-128) with options.cookies
\* null and options.cookiesPath set: the file is read and parsed, and a
\* failure of either returns without an agent
ConstructedAgent(f, createOk) ==
    InitializeAgent(ParseFile(f), NullAgent, createOk)

\* init up to its await (135-150): this.agent is copied into the host's
\* ytdlOptions, then ytmusic.initialize is called
InitBegin ==
    /\ adapter.init = "new"
    /\ adapter' = [adapter EXCEPT !.init = "initializing",
                                  !.hostAgent = agent]
    /\ UNCHANGED <<cookiesPath, puppeteer, config, api, request,
                   runs, timerVars,
                   pluginVars, fileVars>>

\* InitDone, had the timer been started whatever ytmusic.initialize did
InitDoneStartsAnyway ==
    /\ adapter.init = "initializing"
    /\ \E ok \in BOOLEAN :
         adapter' = [adapter EXCEPT !.init = IF ok THEN "ready" ELSE "failed"]
    /\ AutoRefreshStarted
    /\ UNCHANGED <<cookiesPath, puppeteer, config, api, request,
                   runs, pluginVars,
                   fileVars>>

\* await this.ytmusic.initialize({}) settles (150-160): startAutoRefresh,
\* or the DisTubeError is thrown ("failed")
InitDone ==
    /\ adapter.init = "initializing"
    /\ \/ /\ adapter' = [adapter EXCEPT !.init = "ready"]
          /\ AutoRefreshStarted
       \/ /\ adapter' = [adapter EXCEPT !.init = "failed"]
          /\ UNCHANGED timerVars
    /\ UNCHANGED <<cookiesPath, puppeteer, config, api, request,
                   runs, pluginVars,
                   fileVars>>

\* getStreamURL up to its await (563-571): ytdl.getInfo is called with the
\* URL alone, no agent
StreamBegin ==
    /\ adapter.init = "ready"
    /\ adapter.stream = "idle"
    /\ adapter' = [adapter EXCEPT !.stream = "getInfo",
                                  !.streamed = FALSE,
                                  !.infoAgent = NullAgent,
                                  !.formatAgent = NullAgent,
                                  !.agentAtCall = agent,
                                  !.rebuiltAtCall = (lastRebuild = "built"),
                                  !.formats = "none",
                                  !.streamError = <<>>]
    /\ UNCHANGED <<cookiesPath, puppeteer, config, api, request,
                   runs, timerVars,
                   pluginVars, fileVars>>

\* what getStreamURL's await and chooser can give: getInfo rejects; or the
\* formats hold an audio-only entry and the chooser returns it, with or
\* without a url; or they hold none and the chooser returns nothing or
\* throws its own error
StreamOutcomes ==
    {[formats |-> "none", chosen |-> "none", thrown |-> <<"Request failed">>],
     [formats |-> "audio", chosen |-> "url", thrown |-> <<>>],
     [formats |-> "audio", chosen |-> "noUrl", thrown |-> <<>>],
     [formats |-> "noAudio", chosen |-> "nothing", thrown |-> <<>>],
     [formats |-> "noAudio", chosen |-> "none",
      thrown |-> <<"No such format found: highestaudio">>]}

\* the message of the DisTubeError getStreamURL throws (578-586), <<>>
\* when it returns the url
StreamError(outcome) ==
    IF outcome.thrown # <<>> THEN outcome.thrown
    ELSE IF outcome.chosen \in {"nothing", "noUrl"}
    THEN <<"No suitable audio format found">>
    ELSE <<>>

\* getInfo settles (571-587): chooseFormat gets the host's ytdlOptions, and
\* the url is returned or the DisTubeError is thrown
StreamDone ==
    /\ adapter.stream = "getInfo"
    /\ \E outcome \in StreamOutcomes :
         adapter' = [adapter EXCEPT
                       !.stream = "idle",
                       !.streamed = (StreamError(outcome) = <<>>),
                       !.formats = outcome.formats,
                       !.streamError = StreamError(outcome),
                       !.formatAgent = IF outcome.formats # "none"
                                       THEN adapter.hostAgent
                                       ELSE NullAgent]
    /\ UNCHANGED <<cookiesPath, puppeteer, config, api, request,
                   runs, timerVars, pluginVars, fileVars>>

RefreshStep(r) ==
    \/ LaunchDone(r)
    \/ NewPageDone(r)
    \/ SetUserAgentDone(r)
    \/ ReadFileDone(r)
    \/ SetCookieDone(r)
    \/ GotoDone(r)
    \/ ProbeDone(r)
    \/ PollSleepDone(r)
    \/ PollProbeDone(r)
    \/ SettleDone(r)
    \/ ReadBackDone(r)
    \/ SaveOpenDone(r)
    \/ SaveWriteDone(r)
    \/ SaveSettled(r)
    \/ CloseDone(r)

RunStep(r) ==
    \/ LaunchDone(r)
    \/ NewPageDone(r)
    \/ SetUserAgentDone(r)
    \/ ReadFileDone(r)
    \/ SetCookieDone(r)
    \/ GotoDone(r)
    \/ ProbeDone(r)
    \/ PollSleepDone(r)
    \/ PollProbeDone(r)
    \/ SettleDone(r)
    \/ ReadBackDone(r)
    \/ SaveOpenDone(r)
    \/ SaveWriteDone(r)
    \/ SaveSettled(r)
    \/ CloseDone(r)
    \/ TickReadDone(r)

Next ==
    \/ ManualRefresh
    \/ TickFire
    \/ StartAutoRefresh
    \/ StopAutoRefresh
    \/ Destroy
    \/ PluginDestroy
    \/ \E r \in Runs : RunStep(r)

Spec == Init /\ [][Next]_vars

\* a manual refresh beside the interval callback's
RaceInit ==
    InitWith({{"manual", "tick"}}, {"plugin"}, {MissingFile, ValidFile}, FALSE)

RaceNext ==
    \/ ManualRefresh
    \/ TickFire
    \/ StartAutoRefresh
    \/ \E r \in Runs : RunStep(r)

RaceSpec == RaceInit /\ [][RaceNext]_vars

\* two interval callbacks, with the clock
TimedInit == InitWith({TickSlots}, {"plugin"}, {MissingFile}, TRUE)

TimedNext ==
    \/ TickFire
    \/ StartAutoRefresh
    \/ Advance
    \/ \E r \in Runs : RunStep(r)

TimedSpec == TimedInit /\ [][TimedNext]_vars

\* the plugin constructed with cookiesPath and cookieRefresh, then used by
\* its host: init, getStreamURL, and manual refreshes
PluginInit ==
    /\ cookiesPath = ConfiguredPath
    /\ files \in [Paths -> {MissingFile, ValidFile}]
    /\ installed = TRUE
    /\ puppeteer = FALSE
    /\ headless = FALSE
    /\ autoRefresh = TRUE
    /\ \E callerHooks \in BOOLEAN :
         /\ adapter = NewAdapter(callerHooks)
         /\ hooks = ManagerHooks(callerHooks)
    /\ refreshTimer = NoTimer
    /\ activeTimers = {}
    /\ runs = [r \in Runs |-> IdleRun]
    /\ slots = {"manual"}
    /\ timed = FALSE
    /\ sinceFire = 0
    /\ \E createOk \in BOOLEAN :
         agent = ConstructedAgent(files[cookiesPath], createOk)
    /\ optionsCookies = None
    /\ lastSaved = None
    /\ lastNotified = None
    /\ lastRebuild = "none"
    /\ writeFailed = FALSE
    /\ lastCall = NoCall
    /\ api = NoApi
    /\ request = NoRequest

PluginNext ==
    \/ InitBegin
    \/ InitDone
    \/ StreamBegin
    \/ StreamDone
    \/ ManualRefresh
    \/ \E r \in Runs : RefreshStep(r)

PluginSpec == PluginInit /\ [][PluginNext]_vars

\* manual refreshes alone, whose timeouts fire and whose promises settle:
\* every await of refreshCookies is on a timer or on a puppeteer or fs
\* promise
WaitInit ==
    /\ InitWith({{"manual"}}, {"plugin"}, {MissingFile, ValidFile}, FALSE)
    /\ installed

WaitNext == ManualRefresh \/ \E r \in Runs : RefreshStep(r)

WaitSpec ==
    WaitInit /\ [][WaitNext]_vars /\ WF_vars(\E r \in Runs : RefreshStep(r))

(***************************************************************************)
(* Direct calls of validateCookies, loadCookies and saveCookies, one at a  *)
(* time.  api.saved is history: the set of the last saveCookies that       *)
(* succeeded, as long as nothing has written to the file since.            *)
(***************************************************************************)
ApiExpiries ==
    {Undefined, Num(0), Num(5000), Num(Now), Num(12000), Num(50000)}


\* the sets given to validateCookies
ApiSets ==
    UNION {[1..n -> {StoredCookie("SID", e) : e \in ApiExpiries}] :
             n \in 0..MaxCookies}

\* the sets given to saveCookies and loadCookies
StoredSets ==
    UNION {[1..n -> {StoredCookie("SID", e) :
                       e \in {Undefined, Num(0), Num(50000)}}] :
             n \in 0..MaxCookies}

\* a file whose text is a JSON value other than an array
ObjectFile == [exists |-> TRUE, data |-> <<ObjectText>>]

\* ValidateValue, had the test been only for null and for length 0
ValidateValueLengthOnly(kind, items, now) ==
    IF kind = "null" THEN ValidateCookies(<<>>, now)
    ELSE ValidateCookies(items, now)

\* validateCookies(value) for any value (81): what is not an array is
\* answered as the empty array is; "object" is an iterable that is not an
\* array, holding `items`
ValidateValue(kind, items, now) ==
    IF kind # "array" THEN ValidateCookies(<<>>, now)
    ELSE ValidateCookies(items, now)

ApiCall(op, kind, arg) ==
    [api EXCEPT !.pc = "done", !.op = op, !.kind = kind, !.arg = arg,
                !.result = <<>>, !.resultKind = "array", !.raised = FALSE,
                !.readFailed = FALSE]

ApiIdle == api.pc \in {"idle", "done"}

ApiValidate ==
    /\ ApiIdle
    /\ \E kind \in {"array", "null", "object"}, items \in ApiSets :
         /\ kind = "null" => items = <<>>
         /\ api' = [ApiCall("validate", kind, items) EXCEPT
                      !.result = ValidateValue(kind, items, Now),
                      !.resultKind = "validation"]
    /\ UNCHANGED <<cookiesPath, puppeteer, config, adapter, request,
                   runs, timerVars,
                   pluginVars, fileVars>>

\* Loaded, had the catch block of loadCookies been left out
LoadedNoCatch(f, readOk) ==
    IF readOk /\ WellFormed(f.data)
    THEN [kind |-> "array", items |-> ParseFile(f), raised |-> FALSE]
    ELSE IF readOk /\ f.data = <<ObjectText>>
    THEN [kind |-> "object", items |-> <<>>, raised |-> FALSE]
    ELSE [kind |-> "none", items |-> <<>>, raised |-> TRUE]

\* lines 45-56 for a file that exists: the text of an array gives the
\* array, the text of another JSON value gives that value, and a failed
\* read or parse is caught and gives []
Loaded(f, readOk) ==
    IF readOk /\ WellFormed(f.data)
    THEN [kind |-> "array", items |-> ParseFile(f), raised |-> FALSE]
    ELSE IF readOk /\ f.data = <<ObjectText>>
    THEN [kind |-> "object", items |-> <<>>, raised |-> FALSE]
    ELSE [kind |-> "array", items |-> <<>>, raised |-> FALSE]

\* loadCookies(source) up to its readFile (30-45): an array is returned as
\* it is, a string becomes this.cookiesPath, a missing file gives []
LoadCalled(sets) ==
    /\ ApiIdle
    /\ \/ \E items \in sets :
            /\ api' = [ApiCall("load", "array", items) EXCEPT !.result = items]
            /\ UNCHANGED cookiesPath
       \/ \E kind \in {"path", "undefined"}, p \in DOMAIN files :
            /\ cookiesPath' = IF kind = "path" THEN p ELSE cookiesPath
            /\ api' = [ApiCall("load", kind, <<>>) EXCEPT
                         !.pc = IF files[cookiesPath'].exists
                                THEN "loadRead" ELSE "done"]

ApiLoad ==
    /\ LoadCalled(StoredSets)
    /\ UNCHANGED <<puppeteer, config, adapter, request, runs, timerVars,
                   pluginVars, fileVars>>

\* the readFile of loadCookies settles and the text is parsed (45-56)
ApiLoadReadDone ==
    /\ api.pc = "loadRead"
    /\ \E readOk \in BOOLEAN :
         LET loaded == Loaded(files[cookiesPath], readOk)
         IN api' = [api EXCEPT !.pc = "done",
                               !.result = loaded.items,
                               !.resultKind = loaded.kind,
                               !.raised = loaded.raised,
                               !.readFailed = ~readOk]
    /\ UNCHANGED <<cookiesPath, puppeteer, config, adapter, request,
                   runs, timerVars,
                   pluginVars, fileVars>>

\* saveCookies(cookies) calls fs.writeFile (64-66)
SaveCalled(sets) ==
    /\ ApiIdle
    /\ \E cookies \in sets :
         api' = [ApiCall("save", "array", cookies) EXCEPT !.pc = "saveOpen"]

ApiSaveBegin ==
    /\ SaveCalled(StoredSets)
    /\ UNCHANGED <<cookiesPath, puppeteer, config, adapter, request, runs,
                   timerVars, pluginVars, fileVars>>

\* the open settles: the file is truncated, or saveCookies returns false
ApiSaveOpenDone ==
    /\ api.pc = "saveOpen"
    /\ \/ /\ files' = [files EXCEPT ![cookiesPath] = Truncated]
          /\ api' = [api EXCEPT !.pc = "saveWrite", !.saved = None]
       \/ /\ api' = [api EXCEPT !.pc = "done", !.result = FALSE,
                                !.resultKind = "boolean"]
          /\ UNCHANGED files
    /\ UNCHANGED <<cookiesPath, puppeteer, config, adapter, request,
                   runs, timerVars,
                   pluginVars, lastSaved, writeFailed>>

\* the write settles: saveCookies returns true, or false (67-72)
ApiSaveWriteDone ==
    /\ api.pc = "saveWrite"
    /\ \/ /\ files' = [files EXCEPT
                         ![cookiesPath] = WriteAt0(@, Stringify(api.arg))]
          /\ lastSaved' = api.arg
          /\ api' = [api EXCEPT !.pc = "done", !.result = TRUE,
                                !.resultKind = "boolean", !.saved = api.arg]
          /\ UNCHANGED writeFailed
       \/ /\ writeFailed' = TRUE
          /\ api' = [api EXCEPT !.pc = "done", !.result = FALSE,
                                !.resultKind = "boolean"]
          /\ UNCHANGED <<files, lastSaved>>
    /\ UNCHANGED <<cookiesPath, puppeteer, config, adapter, request,
                   runs, timerVars,
                   pluginVars>>

ApiInit ==
    /\ InitWith({{}}, {"none"},
                {MissingFile, MalformedFile, ObjectFile, ValidFile}, FALSE)
    /\ installed
    /\ headless
    /\ autoRefresh

\* calls of validateCookies
ValidateSpec == ApiInit /\ [][ApiValidate]_vars

\* calls of loadCookies and saveCookies
StoreNext ==
    \/ ApiLoad
    \/ ApiLoadReadDone
    \/ ApiSaveBegin
    \/ ApiSaveOpenDone
    \/ ApiSaveWriteDone

StoreSpec == ApiInit /\ [][StoreNext]_vars

\* calls of loadCookies and saveCookies where a second path exists
PathInit ==
    /\ cookiesPath = ConfiguredPath
    /\ files \in [{ConfiguredPath, OtherPath} -> {MissingFile, ValidFile}]
    /\ installed = TRUE
    /\ puppeteer = FALSE
    /\ headless = TRUE
    /\ autoRefresh = TRUE
    /\ adapter = NewAdapter(FALSE)
    /\ hooks = "none"
    /\ refreshTimer = NoTimer
    /\ activeTimers = {}
    /\ runs = [r \in Runs |-> IdleRun]
    /\ slots = {}
    /\ timed = FALSE
    /\ sinceFire = 0
    /\ agent = NullAgent
    /\ optionsCookies = None
    /\ lastSaved = None
    /\ lastNotified = None
    /\ lastRebuild = "none"
    /\ writeFailed = FALSE
    /\ lastCall = NoCall
    /\ api = NoApi
    /\ request = NoRequest

\* loadCookies and saveCookies where the path is what matters
PathLoad ==
    /\ LoadCalled({<<>>, <<StoredCookie("SID", Num(50000))>>})
    /\ UNCHANGED <<puppeteer, config, adapter, request, runs, timerVars,
                   pluginVars, fileVars>>

PathSave ==
    /\ SaveCalled({<<>>, <<StoredCookie("SID", Num(50000))>>})
    /\ UNCHANGED <<cookiesPath, puppeteer, config, adapter, request, runs,
                   timerVars, pluginVars, fileVars>>

PathNext ==
    \/ PathLoad
    \/ ApiLoadReadDone
    \/ PathSave
    \/ ApiSaveOpenDone
    \/ ApiSaveWriteDone

PathSpec == PathInit /\ [][PathNext]_vars

(***************************************************************************)
(* resolve, searchSong, searchSongs and getRelatedSongs of the plugin,     *)
(* part_001:176-640, one call at a time.  The upstream libraries           *)
(* (ytmusic-api, ytdl-core) are outside the repository: their answers are  *)
(* chosen from the kinds the plugin's code tells apart.                    *)
(***************************************************************************)
VideoId == "dQw4w9WgXcQ"

\* the URL forms the README lists (part_000:43-49), in its order
ReadmeVideo == Url("music.youtube.com", <<"watch">>, Undefined, Num(VideoId))

ReadmePlaylist ==
    Url("music.youtube.com", <<"playlist">>, Num("PLx"), Undefined)

ReadmeAlbum ==
    Url("music.youtube.com", <<"browse", "MPREb_x">>, Undefined, Undefined)

ReadmeArtist ==
    Url("music.youtube.com", <<"channel", "UCx">>, Undefined, Undefined)

ReadmeYouTubeVideo ==
    Url("www.youtube.com", <<"watch">>, Undefined, Num(VideoId))

ReadmeUrls ==
    {ReadmeVideo, ReadmePlaylist, ReadmeAlbum, ReadmeArtist, ReadmeYouTubeVideo}

\* other URLs a caller may pass: the path forms extractId looks for, a
\* video inside a playlist, an empty list parameter, a v that is no video
\* id, a foreign host
OtherUrls ==
    {Url("music.youtube.com", <<"album", "MPREb_x">>, Undefined, Undefined),
     Url("music.youtube.com", <<"artist", "UCx">>, Undefined, Undefined),
     Url("music.youtube.com", <<"album", "">>, Undefined, Undefined),
     Url("music.youtube.com", <<"watch">>, Num("PLx"), Num(VideoId)),
     Url("music.youtube.com", <<"playlist">>, Num(""), Undefined),
     Url("music.youtube.com", <<"watch">>, Undefined, Num("bad")),
     Url("example.com", <<"watch">>, Undefined, Num(VideoId))}

Urls == ReadmeUrls \cup OtherUrls \cup {NoUrl}

\* url.includes("/" + segment), for a whole path segment
HasSegment(url, segment) ==
    \E i \in 1..Len(url.path) : url.path[i] = segment

\* url.includes("/" + segment + "/")
HasDirectory(url, segment) ==
    \E i \in 1..(Len(url.path) - 1) : url.path[i] = segment

\* the first match of /\/segment\/([^?/]+)/, or null
AfterDirectory(url, segment) ==
    IF \E i \in 1..(Len(url.path) - 1) :
         url.path[i] = segment /\ url.path[i + 1] # ""
    THEN LET i == CHOOSE k \in 1..(Len(url.path) - 1) :
                    /\ url.path[k] = segment /\ url.path[k + 1] # ""
                    /\ \A j \in 1..(k - 1) :
                         ~(url.path[j] = segment /\ url.path[j + 1] # "")
         IN url.path[i + 1]
    ELSE NullId

\* ytdl.validateURL: a YouTube host with a v parameter that is a video id
ValidateURL(url) ==
    /\ url.host \in {"music.youtube.com", "www.youtube.com"}
    /\ url.v = Num(VideoId)

\* ytdl.getVideoID inside extractId's try (217-221): null when it throws
GetVideoID(url) ==
    IF ValidateURL(url) THEN url.v[1] ELSE NullId

\* validate(url), part_001:176-185, for a string
Validate(url) ==
    \/ url.host = "music.youtube.com"
    \/ url.host = "www.youtube.com" /\ HasSegment(url, "playlist")
    \/ HasDirectory(url, "album")
    \/ HasDirectory(url, "artist")
    \/ ValidateURL(url)

\* extractId(url), part_001:193-226
ExtractId(url) ==
    IF HasSegment(url, "playlist") \/ url.list # Undefined
    THEN [type |-> "playlist",
          id |-> IF url.list # Undefined /\ url.list[1] # ""
                 THEN url.list[1] ELSE NullId]
    ELSE IF HasDirectory(url, "album")
    THEN [type |-> "album", id |-> AfterDirectory(url, "album")]
    ELSE IF HasDirectory(url, "artist")
    THEN [type |-> "artist", id |-> AfterDirectory(url, "artist")]
    ELSE IF HasSegment(url, "watch") \/ ValidateURL(url)
    THEN [type |-> "video", id |-> GetVideoID(url)]
    ELSE [type |-> "video", id |-> NullId]

\* an upstream track: null, or an object with or without a videoId
Track(isNull, videoId) == [isNull |-> isNull, videoId |-> videoId]

TrackLists ==
    UNION {[1..n -> {Track(TRUE, ""), Track(FALSE, ""), Track(FALSE, VideoId)}] :
             n \in 0..MaxTracks}

\* tracks.slice(0, end) for end >= 0
Slice(tracks, end) ==
    SubSeq(tracks, 1, IF end < Len(tracks) THEN end ELSE Len(tracks))

\* processTrack, part_001:380-408: the Song's id, or null
ProcessTrack(track) ==
    IF track.isNull \/ track.videoId = "" THEN NullId ELSE track.videoId

\* the for loop of processPlaylistTracks (413-417)
RECURSIVE ProcessSequentially(_)
ProcessSequentially(tracks) ==
    IF tracks = <<>> THEN <<>>
    ELSE LET song == ProcessTrack(Head(tracks))
         IN (IF song # NullId THEN <<song>> ELSE <<>>)
              \o ProcessSequentially(Tail(tracks))

\* Promise.all over the tracks, then filter(Boolean) (410-412)
ProcessInParallel(tracks) ==
    SelectSeq([i \in 1..Len(tracks) |-> ProcessTrack(tracks[i])],
              LAMBDA song : song # NullId)

\* processPlaylistTracks, part_001:377-422
ProcessPlaylistTracks(tracks, parallel) ==
    IF parallel THEN ProcessInParallel(tracks) ELSE ProcessSequentially(tracks)

\* the upstream answers to getPlaylist / getAlbum / getArtist
CollectionResponses ==
    {Response("rejected", <<>>, <<"Request failed">>),
     Response("rejected", <<>>, <<>>),
     Response("null", <<>>, <<>>),
     Response("noTracks", <<>>, <<>>),
     Response("notArray", <<>>, <<>>)}
      \cup {Response("tracks", t, <<>>) : t \in TrackLists}

\* an upstream answer to ytdl.getInfo in resolve: a rejection, null, an
\* object without videoDetails, or the details
InfoResponses ==
    {Response("rejected", <<>>, <<"Request failed">>),
     Response("null", <<>>, <<>>),
     Response("noDetails", <<>>, <<>>),
     Response("details", <<>>, <<>>)}

\* the error thrown inside resolve's try for a collection, as the message
\* the catch at 362-366 reads, or <<"none">> when nothing is thrown
ThrownInCollection(type, response, songs) ==
    IF response.kind = "rejected" THEN response.message
    ELSE IF response.kind \in {"null", "noTracks"}
    THEN <<"Could not fetch ">> \o <<type>> \o <<" information">>
    ELSE IF response.kind = "notArray"
    THEN IF type = "artist"
         THEN <<"Could not fetch ">> \o <<type>> \o <<" information">>
         ELSE <<"playlistInfo.tracks.slice is not a function">>
    ELSE IF songs = <<>>
    THEN IF type = "artist"
         THEN <<"No playable songs found for ">> \o <<type>>
         ELSE <<"No playable songs found in ">> \o <<type>>
    ELSE <<"none">>

\* the catch of resolve (362-366): one plugin error around the message
FailedToResolve(type, underlying) ==
    <<"Failed to resolve ", type, ": ">>
      \o (IF underlying = <<>> THEN <<"Unknown error">> ELSE underlying)

\* resolve returning without the zero-songs test
ResolvedCollectionUnchecked(req, response) ==
    LET limited == IF response.kind = "tracks"
                   THEN Slice(response.tracks, req.maxViews)
                   ELSE <<>>
        songs == ProcessPlaylistTracks(limited, req.parallel)
        thrown == ThrownInCollection(req.type, response, <<VideoId>>)
    IN [req EXCEPT
          !.pc = "done",
          !.response = response,
          !.converted = Len(limited),
          !.outcome = IF thrown = <<"none">> THEN "playlist" ELSE "error",
          !.songs = IF thrown = <<"none">> THEN songs ELSE <<>>,
          !.message = IF thrown = <<"none">> THEN <<>>
                      ELSE FailedToResolve(req.type, thrown)]

\* resolve slicing to the default instead of this.options.maxViews
ResolvedCollectionDefaultViews(req, response) ==
    LET limited == IF response.kind = "tracks"
                   THEN Slice(response.tracks, DefaultMaxViews)
                   ELSE <<>>
        songs == ProcessPlaylistTracks(limited, req.parallel)
        thrown == ThrownInCollection(req.type, response, songs)
    IN [req EXCEPT
          !.pc = "done",
          !.response = response,
          !.converted = Len(limited),
          !.outcome = IF thrown = <<"none">> THEN "playlist" ELSE "error",
          !.songs = IF thrown = <<"none">> THEN songs ELSE <<>>,
          !.message = IF thrown = <<"none">> THEN <<>>
                      ELSE FailedToResolve(req.type, thrown)]

\* resolve after getPlaylist / getAlbum / getArtist settled (248-326, 362)
ResolvedCollection(req, response) ==
    LET limited == IF response.kind = "tracks"
                   THEN Slice(response.tracks, req.maxViews)
                   ELSE <<>>
        songs == ProcessPlaylistTracks(limited, req.parallel)
        thrown == ThrownInCollection(req.type, response, songs)
    IN [req EXCEPT
          !.pc = "done",
          !.response = response,
          !.converted = Len(limited),
          !.outcome = IF thrown = <<"none">> THEN "playlist" ELSE "error",
          !.songs = IF thrown = <<"none">> THEN songs ELSE <<>>,
          !.message = IF thrown = <<"none">> THEN <<>>
                      ELSE FailedToResolve(req.type, thrown)]

\* resolve after ytdl.getInfo settled (328-357, 362)
ResolvedVideo(req, response) ==
    LET thrown == CASE response.kind = "rejected" -> response.message
                    [] response.kind \in {"null", "noDetails"} ->
                         <<"Failed to get video details">>
                    [] OTHER -> <<"none">>
    IN [req EXCEPT
          !.pc = "done",
          !.response = response,
          !.outcome = IF thrown = <<"none">> THEN "song" ELSE "error",
          !.songs = IF thrown = <<"none">> THEN <<req.id>> ELSE <<>>,
          !.message = IF thrown = <<"none">> THEN <<>>
                      ELSE FailedToResolve(req.type, thrown)]

\* a new call on the plugin, with the options it was built with
NewRequest(op) ==
    [NoRequest EXCEPT !.op = op, !.maxViews = request.maxViews,
                      !.parallel = request.parallel]

\* resolve(url) up to its await (234-248, 269, 291, 330): the two errors
\* thrown before the try, or the upstream call for the type
ResolveBegin ==
    /\ request.pc \in {"idle", "done"}
    /\ \E url \in Urls :
         LET extracted == ExtractId(url)
             req == [NewRequest("resolve") EXCEPT !.url = url]
         IN request' =
              IF url = NoUrl
              THEN [req EXCEPT !.pc = "done", !.outcome = "error",
                               !.message = <<"INVALID_TYPE">>]
              ELSE IF extracted.id = NullId
              THEN [req EXCEPT !.pc = "done", !.outcome = "error",
                               !.type = extracted.type,
                               !.message = <<"Could not extract ID from URL">>]
              ELSE [req EXCEPT !.pc = "upstream",
                               !.type = extracted.type,
                               !.id = extracted.id]
    /\ UNCHANGED <<cookiesPath, puppeteer, config, adapter, api, runs,
                   timerVars, pluginVars, fileVars>>

\* the upstream call of resolve settles and resolve runs to its end
ResolveDone ==
    /\ request.op = "resolve"
    /\ request.pc = "upstream"
    /\ \/ /\ request.type = "video"
          /\ \E response \in InfoResponses :
               request' = ResolvedVideo(request, response)
       \/ /\ request.type # "video"
          /\ \E response \in CollectionResponses :
               request' = ResolvedCollection(request, response)
    /\ UNCHANGED <<cookiesPath, puppeteer, config, adapter, api, runs,
                   timerVars, pluginVars, fileVars>>

\* an upstream answer to a search: a rejection, null, a value that is no
\* array, or the list of results
SearchResponses ==
    {Response("rejected", <<>>, <<"Request failed">>),
     Response("null", <<>>, <<>>),
     Response("notArray", <<>>, <<>>)}
      \cup {Response("tracks", t, <<>>) : t \in TrackLists}

\* searchSong with the errors of its body let through
SearchedSongNoCatch(req, response) ==
    LET results == response.tracks
        raises == \/ response.kind \in {"rejected", "notArray"}
                  \/ response.kind = "tracks" /\ Len(results) > 0
                       /\ results[1].isNull
        found == /\ response.kind = "tracks"
                 /\ Len(results) > 0
                 /\ ~results[1].isNull
                 /\ results[1].videoId # ""
    IN [req EXCEPT
          !.pc = "done",
          !.response = response,
          !.outcome = IF raises THEN "error"
                      ELSE IF found THEN "song" ELSE "null",
          !.songs = IF found THEN <<results[1].videoId>> ELSE <<>>]

\* searchSong after ytmusic.searchSongs settled (430-473): reading
\* videoId of a first result that is null or missing throws inside the try
SearchedSong(req, response) ==
    LET results == response.tracks
        found == /\ response.kind = "tracks"
                 /\ Len(results) > 0
                 /\ ~results[1].isNull
                 /\ results[1].videoId # ""
    IN [req EXCEPT
          !.pc = "done",
          !.response = response,
          !.outcome = IF found THEN "song" ELSE "null",
          !.songs = IF found THEN <<results[1].videoId>> ELSE <<>>]

\* searchSongs after the upstream search settled (483-556): a null entry
\* among the limited results throws inside the try; the loop (520-549)
\* pushes a song for each result with a videoId
SearchedSongs(req, response) ==
    LET limit == IF Truthy(req.limit) THEN req.limit[1] ELSE DefaultLimit
        limited == IF response.kind = "tracks"
                   THEN Slice(response.tracks, limit) ELSE <<>>
        thrown == \/ response.kind \in {"rejected", "notArray"}
                  \/ \E i \in 1..Len(limited) : limited[i].isNull
    IN [req EXCEPT
          !.pc = "done",
          !.response = response,
          !.outcome = "songs",
          !.converted = IF thrown THEN 0 ELSE Len(limited),
          !.songs = IF thrown THEN <<>>
                    ELSE SelectSeq([i \in 1..Len(limited) |-> limited[i].videoId],
                                   LAMBDA videoId : videoId # "")]

\* getRelatedSongs after ytmusic.getRelated settled (595-640): the loop
\* (610-633) skips a null track and one without videoId
RelatedSongs(req, response) ==
    [req EXCEPT
       !.pc = "done",
       !.response = response,
       !.outcome = "songs",
       !.songs = IF response.kind = "tracks"
                 THEN SelectSeq([i \in 1..Len(response.tracks) |->
                                   IF response.tracks[i].isNull THEN ""
                                   ELSE response.tracks[i].videoId],
                                LAMBDA videoId : videoId # "")
                 ELSE <<>>]

\* searchSong(query) up to its await (430-433)
SearchSongBegin ==
    /\ request.pc \in {"idle", "done"}
    /\ request' = [NewRequest("searchSong") EXCEPT !.pc = "upstream"]
    /\ UNCHANGED <<cookiesPath, puppeteer, config, adapter, api, runs,
                   timerVars, pluginVars, fileVars>>

SearchSongDone ==
    /\ request.op = "searchSong"
    /\ request.pc = "upstream"
    /\ \E response \in SearchResponses :
         request' = SearchedSong(request, response)
    /\ UNCHANGED <<cookiesPath, puppeteer, config, adapter, api, runs,
                   timerVars, pluginVars, fileVars>>

\* searchSongs(query, {limit}) up to its await (483-507)
SearchSongsBegin ==
    /\ request.pc \in {"idle", "done"}
    /\ \E limit \in {Undefined} \cup {Num(n) : n \in 0..MaxLimit} :
         request' = [NewRequest("searchSongs") EXCEPT !.pc = "upstream",
                                                      !.limit = limit]
    /\ UNCHANGED <<cookiesPath, puppeteer, config, adapter, api, runs,
                   timerVars, pluginVars, fileVars>>

SearchSongsDone ==
    /\ request.op = "searchSongs"
    /\ request.pc = "upstream"
    /\ \E response \in SearchResponses :
         request' = SearchedSongs(request, response)
    /\ UNCHANGED <<cookiesPath, puppeteer, config, adapter, api, runs,
                   timerVars, pluginVars, fileVars>>

\* getRelatedSongs(song) up to its await (595-603): [] at once for no song
\* or a song without id
RelatedBegin ==
    /\ request.pc \in {"idle", "done"}
    /\ \E song \in {NullId, VideoId} :
         request' = [NewRequest("getRelatedSongs") EXCEPT
                       !.song = song,
                       !.pc = IF song = NullId THEN "done" ELSE "upstream",
                       !.outcome = IF song = NullId THEN "songs" ELSE "none"]
    /\ UNCHANGED <<cookiesPath, puppeteer, config, adapter, api, runs,
                   timerVars, pluginVars, fileVars>>

RelatedDone ==
    /\ request.op = "getRelatedSongs"
    /\ request.pc = "upstream"
    /\ \E response \in CollectionResponses :
         request' = RelatedSongs(request, response)
    /\ UNCHANGED <<cookiesPath, puppeteer, config, adapter, api, runs,
                   timerVars, pluginVars, fileVars>>

\* the plugin as constructed: maxViews and parallel from the options
RequestInit ==
    /\ cookiesPath = ConfiguredPath
    /\ files \in [Paths -> {MissingFile}]
    /\ installed = TRUE
    /\ puppeteer = FALSE
    /\ headless = TRUE
    /\ autoRefresh = TRUE
    /\ adapter = NewAdapter(FALSE)
    /\ hooks = "none"
    /\ refreshTimer = NoTimer
    /\ activeTimers = {}
    /\ runs = [r \in Runs |-> IdleRun]
    /\ slots = {}
    /\ timed = FALSE
    /\ sinceFire = 0
    /\ agent = NullAgent
    /\ optionsCookies = None
    /\ lastSaved = None
    /\ lastNotified = None
    /\ lastRebuild = "none"
    /\ writeFailed = FALSE
    /\ lastCall = NoCall
    /\ api = NoApi
    /\ \E maxViews \in (0..MaxViews) \cup {DefaultMaxViews},
          parallel \in BOOLEAN :
         request = [NoRequest EXCEPT !.maxViews = maxViews,
                                     !.parallel = parallel]

ResolveNext == ResolveBegin \/ ResolveDone

ResolveSpec == RequestInit /\ [][ResolveNext]_vars

SearchNext ==
    \/ SearchSongBegin
    \/ SearchSongDone
    \/ SearchSongsBegin
    \/ SearchSongsDone
    \/ RelatedBegin
    \/ RelatedDone

SearchSpec == RequestInit /\ [][SearchNext]_vars

(***************************************************************************)
(* Properties.                                                             *)
(***************************************************************************)
\* refreshCookies() is called in slot r in this step: by the caller, or by
\* the interval callback once it has loaded and validated the set
RefreshBegins(r) ==
    /\ Free(r) \/ runs[r].pc = "tickRead"
    /\ runs'[r] # runs[r]
    /\ runs'[r].pc # "tickRead"
    /\ ~(runs'[r].pc = "done" /\ runs'[r].ret = "skipped")

\* the interval callback in slot r decides in this step
TickDecides(r) ==
    /\ r \in TickSlots
    /\ runs'[r] # runs[r]
    /\ \/ Free(r) /\ runs'[r].pc # "tickRead"
       \/ runs[r].pc = "tickRead"

\* this step is a call of startAutoRefresh, stopAutoRefresh or destroy
Calls(op) == lastCall' # lastCall /\ lastCall'.op = op

\* C1: when require('puppeteer') fails, every refreshCookies() call ends in
\* the step that made it, returning null, with onRefreshError called
\* exactly once (when one is registered), onCookiesUpdated never, and the
\* credential file as it was.
DriverUnavailableReturnsNull ==
    [][\A r \in Runs :
         (~installed /\ RefreshBegins(r))
         => /\ runs'[r].pc = "done"
            /\ runs'[r].ret = "null"
            /\ runs'[r].errCalls = (IF hooks = "none" THEN 0 ELSE 1)
            /\ runs'[r].updCalls = 0
            /\ files' = files
            /\ UNCHANGED <<lastSaved, agent, optionsCookies>>]_vars

DriverUnavailableSeen ==
    /\ ~installed
    /\ hooks = "custom"
    /\ runs["manual"].pc = "done"
    /\ runs["manual"].ret = "null"
    /\ runs["manual"].errCalls = 1
    /\ files[cookiesPath] = ValidFile

TickRefreshesExpiringSet ==
    /\ files[cookiesPath] = SoonFile
    /\ runs["tick"].pc = "launch"

\* C3: at most one interval timer is ever set, and it is the one
\* this.refreshTimer holds; startAutoRefresh with a timer running keeps
\* that timer and sets no other, with autoRefresh off it sets none, and
\* stopAutoRefresh with no timer changes nothing.
AtMostOneTimer ==
    [][/\ Cardinality(activeTimers') <= 1
       /\ activeTimers' = (IF refreshTimer' = NoTimer THEN {}
                           ELSE {refreshTimer'})
       /\ (Calls("start") /\ refreshTimer # NoTimer)
            => UNCHANGED <<refreshTimer, activeTimers, sinceFire>>
       /\ (Calls("start") /\ ~autoRefresh)
            => refreshTimer' = NoTimer /\ activeTimers' = {}
       /\ (Calls("stop") /\ refreshTimer = NoTimer)
            => UNCHANGED <<cookiesPath, files, puppeteer, config, runs,
                           refreshTimer, activeTimers, sinceFire,
                           pluginVars, lastSaved, writeFailed>>]_vars

StartedWhileRunning ==
    /\ lastCall.op = "start"
    /\ lastCall.hadTimer
    /\ refreshTimer # NoTimer
    /\ activeTimers = {refreshTimer}

DestroyCalled == Calls("destroy") \/ Calls("pluginDestroy")

\* C4: destroy(), the manager's and the plugin's, leaves no interval timer
\* set, so that no interval callback begins after it; called again, with
\* or without a timer, it leaves the state it found, and it can always be
\* called.
DestroyStopsTimer ==
    [][/\ DestroyCalled => refreshTimer' = NoTimer /\ activeTimers' = {}
       /\ (DestroyCalled /\ refreshTimer = NoTimer)
            => UNCHANGED <<cookiesPath, files, puppeteer, config, runs,
                           refreshTimer, activeTimers, sinceFire,
                           pluginVars, lastSaved, writeFailed>>
       /\ (\E r \in TickSlots : Free(r) /\ runs'[r] # runs[r])
            => activeTimers # {} /\ lastCall.op \notin {"destroy",
                                                         "pluginDestroy"}
       /\ ENABLED Destroy]_vars

DestroyedTwice ==
    /\ lastCall.op = "destroy"
    /\ lastCall.again
    /\ refreshTimer = NoTimer
    /\ activeTimers = {}

\* C5: an invocation of refreshCookies() that is not running holds no open
\* browser: whichever way it ended, it has awaited browser.close() on the
\* browser it launched.
BrowserAlwaysClosed ==
    \A r \in Runs :
        /\ Free(r) => runs[r].browser # "open"
        /\ runs[r].pc \in {"launch", "tickRead"} => runs[r].browser = "none"

ClosedAfterCallbackThrew ==
    /\ hooks = "custom"
    /\ runs["manual"].pc = "done"
    /\ runs["manual"].ret = "null"
    /\ runs["manual"].updCalls = 1
    /\ runs["manual"].browser = "closed"

\* C6: refreshCookies() always completes by returning: the fresh set, with
\* no error reported, or null, with onRefreshError called exactly once when
\* one is registered.
RefreshNeverRaises ==
    \A r \in Runs :
        /\ runs[r].pc = "done" =>
             /\ runs[r].ret \in {"set", "null", "skipped"}
             /\ runs[r].ret = "set" =>
                  /\ runs[r].fresh # None
                  /\ runs[r].errCalls = 0
             /\ runs[r].ret = "null" =>
                  runs[r].errCalls = (IF hooks = "none" THEN 0 ELSE 1)
        /\ runs[r].pc # "done" => runs[r].ret = "none" /\ runs[r].errCalls = 0

NullAfterTeardownFailure ==
    /\ hooks = "plugin"
    /\ runs["manual"].pc = "done"
    /\ runs["manual"].ret = "null"
    /\ runs["manual"].errCalls = 1
    /\ runs["manual"].browser = "closeFailed"

\* the place of a step in the sequence of refreshCookies
Rank(pc) ==
    CASE pc \in {"idle", "tickRead"} -> 0
      [] pc = "launch" -> 1
      [] pc \in {"newPage", "setUserAgent"} -> 2
      [] pc \in {"readFile", "setCookie"} -> 3
      [] pc = "goto" -> 4
      [] pc = "probe" -> 5
      [] pc \in {"pollSleep", "pollProbe"} -> 6
      [] pc = "settle" -> 7
      [] pc = "readBack" -> 8
      [] pc \in {"saveOpen", "saveWrite", "saved"} -> 9
      [] pc = "close" -> 11
      [] pc = "done" -> 12

\* C7: an invocation of refreshCookies() goes through launch, injection,
\* navigation, probe, login wait, read-back, save, callback, teardown in
\* this order and never back; the callback is invoked only once the save
\* has settled, the file is written only in the save, and the browser is
\* torn down only after the save or after a failure.
StepsInOrder ==
    [][\A r \in Runs :
         (InFlight(r) /\ runs'[r] # runs[r]) =>
           LET old == runs[r]
               new == runs'[r]
           IN /\ Rank(new.pc) >= Rank(old.pc)
              /\ (new.pc = "close" /\ new.pending = "ok") =>
                   /\ old.pc \in {"saveOpen", "saved"}
                   /\ hooks # "none" => new.updCalls = old.updCalls + 1
              /\ new.updCalls # old.updCalls =>
                   /\ old.pc \in {"saveOpen", "saved"}
                   /\ new.pc = "close"
                   /\ new.updCalls = old.updCalls + 1
              /\ new.browser # old.browser =>
                   \/ old.pc = "launch" /\ new.browser = "open"
                   \/ old.pc = "close" /\ new.browser \in {"closed",
                                                           "closeFailed"}
              /\ new.fresh # old.fresh =>
                   old.pc = "readBack" \/ new.pc = "done"
              /\ files' # files => old.pc \in {"saveOpen", "saveWrite"}
              /\ Rank(new.pc) \in {9, 11} /\ new.pending = "ok"
                   => Rank(old.pc) \in {8, 9}]_vars

FullSequenceSeen ==
    /\ runs["manual"].pc = "close"
    /\ runs["manual"].pending = "ok"
    /\ runs["manual"].waited
    /\ runs["manual"].updCalls = 1
    /\ lastSaved = runs["manual"].fresh
    /\ files[cookiesPath] = FileOf(lastSaved)

\* refreshCookies() is running in slot r
Refreshing(r) == InFlight(r) /\ runs[r].pc # "tickRead"

\* C8: while the refreshCookies() of one interval callback is running, no
\* other interval callback has begun.
TickRefreshesNeverOverlap ==
    \A r \in TickSlots, q \in TickSlots :
        (r # q /\ Refreshing(r)) => Free(q)

\* C9: once a manual refreshCookies() and an interval callback's have both
\* returned their sets, the credential file holds exactly the set whose
\* write finished last and the plugin's agent is the one built from the
\* set of the last onCookiesUpdated call.  Stated for the runs in which
\* no write to the file failed and the set notified last is not empty and
\* its agent could be created.
LastSaveWins ==
    (/\ runs["manual"].pc = "done" /\ runs["manual"].ret = "set"
     /\ runs["tick"].pc = "done" /\ runs["tick"].ret = "set"
     /\ ~writeFailed
     /\ lastSaved # None
     /\ Len(lastNotified) > 0
     /\ lastRebuild = "built")
    => /\ files[cookiesPath] = FileOf(lastSaved)
       /\ agent = CreateAgent(lastNotified)

\* C10: destroy() changes no invocation of refreshCookies() and nothing
\* they use; every invocation in progress, before and after it, has its
\* next step; and it leaves no interval timer, so no callback begins.
DestroyDoesNotAbort ==
    [][/\ DestroyCalled =>
            /\ UNCHANGED <<runs, files, cookiesPath, puppeteer, config,
                           pluginVars>>
            /\ activeTimers' = {}
       /\ \A r \in Runs : InFlight(r) => ENABLED RunStep(r)
       /\ \A r \in TickSlots :
            (Free(r) /\ runs'[r] # runs[r]) => activeTimers # {}]_vars

RefreshCompletedAfterDestroy ==
    /\ hooks = "plugin"
    /\ lastCall.op = "destroy"
    /\ lastCall.hadTimer
    /\ "tick" \in lastCall.during
    /\ refreshTimer = NoTimer
    /\ runs["tick"].pc = "done"
    /\ runs["tick"].ret = "set"
    /\ runs["tick"].updCalls = 1
    /\ Len(runs["tick"].fresh) > 0
    /\ files[cookiesPath] = FileOf(runs["tick"].fresh)
    /\ agent = CreateAgent(runs["tick"].fresh)

\* onCookiesUpdated is called in this step by invocation r
Notifies(r) == InFlight(r) /\ runs'[r].updCalls = runs[r].updCalls + 1

\* C11: init() sets the interval timer only in the step in which
\* ytmusic.initialize has succeeded, and then it does; when initialize
\* fails init() throws, sets no timer, and initialize is not tried again.
InitStartsRefreshAfterClient ==
    [][/\ refreshTimer # NoTimer => adapter.init = "ready"
       /\ (adapter.init = "new" /\ adapter'.init # "new")
            => /\ adapter'.init = "initializing"
               /\ UNCHANGED <<refreshTimer, activeTimers>>
       /\ (adapter.init = "initializing" /\ adapter'.init = "ready")
            => refreshTimer' # NoTimer /\ activeTimers' = {refreshTimer'}
       /\ (adapter.init = "initializing" /\ adapter'.init = "failed")
            => UNCHANGED <<refreshTimer, activeTimers, lastCall>>
       /\ adapter.init = "failed"
            => adapter'.init = "failed" /\ refreshTimer' = NoTimer
       /\ adapter.init = "ready" => adapter'.init = "ready"]_vars

InitFailedNoTimer ==
    /\ adapter.init = "failed"
    /\ refreshTimer = NoTimer
    /\ activeTimers = {}
    /\ autoRefresh

\* C12, as stated: after a notification the plugin's agent is the one
\* built from the notified set, whatever that set is.
AgentBuiltFromEveryNotifiedSet ==
    (hooks = "plugin" /\ lastNotified # None)
    => agent = CreateAgent(lastNotified)

\* C12, amended: every notification stores the notified set in
\* options.cookies; a non-empty set that createAgent accepts replaces the
\* agent by the one built from it, an empty set leaves the agent as it
\* was, and no agent is ever built from an empty set.
AgentRebuiltFromNonEmptySet ==
    [][\A r \in Runs :
         (hooks = "plugin" /\ Notifies(r)) =>
           /\ optionsCookies' = runs[r].fresh
           /\ lastNotified' = runs[r].fresh
           /\ (Len(runs[r].fresh) > 0 /\ lastRebuild' = "built")
                => agent' = CreateAgent(runs[r].fresh)
           /\ Len(runs[r].fresh) = 0
                => agent' = agent /\ lastRebuild' = "empty"
           /\ agent'.built => Len(agent'.cookies) > 0]_vars

AgentKeptOnEmptySet ==
    /\ lastRebuild = "empty"
    /\ lastNotified = <<>>
    /\ optionsCookies = <<>>
    /\ agent.built
    /\ agent.cookies = FormatCookies(<<BrowserCookie("SID", 50000),
                                       BrowserCookie("PREF", -1)>>)

\* C13: a getStreamURL call that began after a notification rebuilt the
\* agent hands the plugin's agent of that moment to ytdl, and the host's
\* ytdlOptions.agent is the plugin's current agent.
StreamUsesCurrentAgent ==
    /\ (adapter.streamed /\ adapter.rebuiltAtCall)
         => /\ adapter.infoAgent = adapter.agentAtCall
            /\ adapter.formatAgent = adapter.agentAtCall
    /\ (adapter.init = "ready" /\ lastRebuild = "built")
         => adapter.hostAgent = agent

\* the sets an agent may be built from: the one in the file at
\* construction, or one read back by a refresh
WholeSets ==
    {ParseFile(f) : f \in InitialFiles} \cup {FormatCookies(j) : j \in FreshJars}

WholeAgent(a) ==
    \/ a = NullAgent
    \/ /\ a.built
       /\ a.cookies \in WholeSets
       /\ Len(a.cookies) > 0
       /\ a = CreateAgent(a.cookies)

\* C14: the plugin's agent, and the agent a reader took from it, is null
\* or the client built for one whole credential set; it changes only in
\* the step of a notification, to the client of the notified set, and a
\* rebuild that fails leaves it as it was.
AgentAlwaysWhole ==
    [][/\ WholeAgent(agent) /\ WholeAgent(agent')
       /\ WholeAgent(adapter.hostAgent)
       /\ WholeAgent(adapter.formatAgent)
       /\ agent' # agent
            => \E r \in Runs : Notifies(r) /\ agent' = CreateAgent(runs[r].fresh)
       /\ (\E r \in Runs : Notifies(r)) /\ lastRebuild' = "failed"
            => agent' = agent
       /\ adapter'.hostAgent # adapter.hostAgent
            => adapter.init = "new" /\ adapter'.hostAgent = agent]_vars

AgentKeptOnFailedRebuild ==
    /\ lastRebuild = "failed"
    /\ Len(lastNotified) > 0
    /\ agent.built
    /\ agent # CreateAgent(lastNotified)
    /\ adapter.streamed

\* validateCookies was called with an array
ValidatedArray ==
    /\ api.op = "validate"
    /\ api.pc = "done"
    /\ api.kind = "array"

\* the cookie has an expiry time and it is strictly before now
ExpiredCookie(c) ==
    c.expirationDate # Undefined /\ c.expirationDate[1] < Now

\* the cookie has an expiry time within the lead time from now
SoonCookie(c) ==
    /\ c.expirationDate # Undefined
    /\ c.expirationDate[1] >= Now
    /\ c.expirationDate[1] < Now + (RefreshBeforeExpiry \div 1000)

\* C15: validateCookies on a set holding a cookie whose expiry time is
\* strictly before now answers expired = true and valid = false.
ExpiredSetIsInvalid ==
    (ValidatedArray /\ \E i \in 1..Len(api.arg) : ExpiredCookie(api.arg[i]))
    => api.result.expired /\ ~api.result.valid

\* C16: validateCookies on a set with no expired cookie and one expiring
\* within the lead time answers expiringSoon = true and valid = true; a
\* set of cookies without expiry time is neither expired nor expiring soon.
ExpiringSoonSetIsValid ==
    /\ (/\ ValidatedArray
        /\ \A i \in 1..Len(api.arg) : ~ExpiredCookie(api.arg[i])
        /\ \E i \in 1..Len(api.arg) : SoonCookie(api.arg[i]))
       => api.result.expiringSoon /\ api.result.valid
    /\ (/\ ValidatedArray
        /\ Len(api.arg) > 0
        /\ \A i \in 1..Len(api.arg) : api.arg[i].expirationDate = Undefined)
       => /\ ~api.result.expired
          /\ ~api.result.expiringSoon
          /\ api.result.valid
    /\ (/\ ValidatedArray
        /\ \A i \in 1..Len(api.arg) :
             api.arg[i].expirationDate = Undefined
               \/ api.arg[i].expirationDate[1] >= Now
                                      + (RefreshBeforeExpiry \div 1000))
       => ~api.result.expired /\ ~api.result.expiringSoon

ExpiringSoonSeen ==
    /\ ValidatedArray
    /\ api.arg = <<StoredCookie("SID", Undefined), StoredCookie("SID", Num(Now))>>
    /\ api.result.expiringSoon
    /\ api.result.valid

\* validateCookies was called with [], null, or a value that is no array
ValidatedNothing ==
    /\ api.op = "validate"
    /\ api.pc = "done"
    /\ api.kind # "array" \/ api.arg = <<>>

\* C17, as stated: on an empty array, null or a non-array the answer is
\* valid = false with the message "No credentials provided".
NoCredentialsMessage ==
    ValidatedNothing
    => ~api.result.valid /\ api.result.message = "No credentials provided"

\* C17, amended: on an empty array, null or a non-array the answer is
\* valid = false, neither expired nor expiring soon, with the message
\* "No cookies provided".
NoCookiesMessage ==
    ValidatedNothing
    => /\ ~api.result.valid
       /\ ~api.result.expired
       /\ ~api.result.expiringSoon
       /\ api.result.message = "No cookies provided"

NonArrayValidated ==
    /\ ValidatedNothing
    /\ api.kind = "object"
    /\ api.arg = <<StoredCookie("SID", Num(50000))>>
    /\ api.result.message = "No cookies provided"

SaveLoadRoundTrip ==
    (/\ api.op = "load" /\ api.pc = "done"
     /\ api.kind # "array"
     /\ api.saved # None
     /\ ~api.readFailed)
    => /\ api.resultKind = "array"
       /\ api.result = api.saved
       /\ ~api.raised

RoundTripSeen ==
    /\ api.op = "load"
    /\ api.pc = "done"
    /\ api.kind = "path"
    /\ ~api.readFailed
    /\ api.saved = <<StoredCookie("SID", Num(0)), StoredCookie("SID", Undefined)>>
    /\ api.result = api.saved

\* C20: with onCookiesUpdated and onRefreshError passed in the plugin's
\* cookieRefresh options, a refresh that returned its set has called the
\* caller's onCookiesUpdated and one that returned null the caller's
\* onRefreshError.
CallerHooksHonoured ==
    adapter.callerHooks =>
      \A r \in Runs :
        runs[r].pc = "done" =>
          /\ runs[r].ret = "set" => adapter.callerUpdCalls > 0
          /\ runs[r].ret = "null" => adapter.callerErrCalls > 0

\* the kind the README states for each URL form it lists (part_000:43-49)
ReadmeKind(url) ==
    CASE url = ReadmeVideo -> "video"
      [] url = ReadmePlaylist -> "playlist"
      [] url = ReadmeAlbum -> "album"
      [] url = ReadmeArtist -> "artist"
      [] url = ReadmeYouTubeVideo -> "video"

\* C21: resolve of a URL form the README lists accepts the URL, classifies
\* it as the kind the README states and extracts a non-absent id, so that
\* the call goes on to the upstream request for that kind.
ReadmeFormsResolve ==
    (request.op = "resolve" /\ request.url \in ReadmeUrls) =>
      /\ Validate(request.url)
      /\ request.type = ReadmeKind(request.url)
      /\ request.id # NullId
      /\ request.message # <<"Could not extract ID from URL">>

\* a resolve of a playlist, album or artist URL has run to its end
CollectionResolved ==
    /\ request.op = "resolve"
    /\ request.pc = "done"
    /\ request.type \in {"playlist", "album", "artist"}
    /\ request.response.kind # "none"

\* C22: a playlist, album or artist resolve converts at most maxViews
\* tracks, the first ones of the upstream list, and returns at most
\* maxViews songs, whatever the upstream track count.
AtMostMaxViewsSongs ==
    CollectionResolved =>
      /\ request.converted <= request.maxViews
      /\ Len(request.songs) <= request.converted
      /\ request.response.kind = "tracks"
           => request.converted =
                (IF Len(request.response.tracks) < request.maxViews
                 THEN Len(request.response.tracks) ELSE request.maxViews)

TruncatedToMaxViews ==
    /\ CollectionResolved
    /\ request.outcome = "playlist"
    /\ request.maxViews = MaxViews
    /\ Len(request.response.tracks) > MaxViews
    /\ \A i \in 1..Len(request.response.tracks) :
         request.response.tracks[i] = Track(FALSE, VideoId)
    /\ Len(request.songs) = MaxViews

\* the last Len(part) entries of message are part
EndsWith(message, part) ==
    /\ Len(message) >= Len(part)
    /\ SubSeq(message, Len(message) - Len(part) + 1, Len(message)) = part

\* C23: resolve returns no collection without songs; when the tracks kept
\* after truncation give no song (each is null or lacks a videoId, or none
\* is kept) resolve throws the plugin error "Failed to resolve <type>: "
\* followed by the underlying message, and an upstream rejection is
\* reported the same way with its message.
NeverEmptyCollection ==
    CollectionResolved =>
      /\ request.outcome \in {"playlist", "error"}
      /\ request.outcome = "playlist" => Len(request.songs) > 0
      /\ (/\ request.response.kind = "tracks"
          /\ \A i \in 1..request.converted :
               ProcessTrack(request.response.tracks[i]) = NullId)
           => /\ request.outcome = "error"
              /\ SubSeq(request.message, 1, 3)
                   = <<"Failed to resolve ", request.type, ": ">>
              /\ \/ EndsWith(request.message,
                             <<"No playable songs found in ", request.type>>)
                 \/ EndsWith(request.message,
                             <<"No playable songs found for ", request.type>>)
      /\ (request.response.kind = "rejected" /\ request.response.message # <<>>)
           => /\ request.outcome = "error"
              /\ SubSeq(request.message, 1, 3)
                   = <<"Failed to resolve ", request.type, ": ">>
              /\ EndsWith(request.message, request.response.message)
      /\ request.outcome = "error"
           => request.songs = <<>> /\ Len(request.message) > 3

NoConvertibleTrack ==
    /\ CollectionResolved
    /\ request.type = "album"
    /\ request.response.kind = "tracks"
    /\ request.response.tracks = <<Track(FALSE, ""), Track(TRUE, "")>>
    /\ request.converted = 2
    /\ request.outcome = "error"
    /\ request.message = <<"Failed to resolve ", "album", ": ",
                           "No playable songs found in ", "album">>

\* a searchSongs call has returned
SongsSearched == request.op = "searchSongs" /\ request.pc = "done"

\* C24: searchSongs returns at most limit entries, at most 3 when no limit
\* is given, and every entry it returns has a videoId.
AtMostLimitSongs ==
    SongsSearched =>
      /\ request.outcome = "songs"
      /\ Len(request.songs) <= (IF request.limit = Undefined THEN DefaultLimit
                                ELSE request.limit[1])
      /\ \A i \in 1..Len(request.songs) : request.songs[i] # NullId

\* a search or related call has returned
ReadDone ==
    /\ request.op \in {"searchSong", "searchSongs", "getRelatedSongs"}
    /\ request.pc = "done"

\* C25: searchSong, searchSongs and getRelatedSongs never throw: on an
\* upstream rejection and on a null or non-array upstream answer
\* searchSong returns null and the other two an empty list; searchSong
\* returns null too when the first result has no videoId.
ReadsNeverRaise ==
    ReadDone =>
      /\ request.outcome # "error"
      /\ request.op = "searchSong" => request.outcome \in {"song", "null"}
      /\ request.op # "searchSong" => request.outcome = "songs"
      /\ request.response.kind \in {"rejected", "null", "notArray", "noTracks"}
           => /\ request.songs = <<>>
              /\ request.op = "searchSong" => request.outcome = "null"
      /\ (/\ request.op = "searchSong"
          /\ request.response.kind = "tracks"
          /\ \/ request.response.tracks = <<>>
             \/ ProcessTrack(request.response.tracks[1]) = NullId)
           => request.outcome = "null"

FirstResultWithoutId ==
    /\ ReadDone
    /\ request.op = "searchSong"
    /\ request.response.kind = "tracks"
    /\ request.response.tracks = <<Track(FALSE, ""), Track(FALSE, VideoId)>>
    /\ request.outcome = "null"

\* C26: a getStreamURL call whose formats hold no audio-only entry throws
\* a plugin error whose message is "No suitable audio format found",
\* whether the chooser returned nothing or threw, and returns no url.
NoAudioFormatReported ==
    (adapter.stream = "idle" /\ adapter.formats = "noAudio") =>
      /\ ~adapter.streamed
      /\ adapter.streamError = <<"No suitable audio format found">>

\* invocation r is inside the login wait loop (217-232)
InLoginWait(r) == runs[r].pc \in {"pollSleep", "pollProbe"}

ExactlyOneCallback ==
    \A r \in Runs :
      (runs[r].pc = "done" /\ runs[r].ret \in {"set", "null"}) =>
        /\ runs[r].updCalls + runs[r].errCalls = 1
        /\ runs[r].ret = "set" <=> runs[r].updCalls = 1
        /\ runs[r].ret = "null" <=> runs[r].errCalls = 1

\* C29: when refreshCookies() has returned the set it passed to
\* onCookiesUpdated, the credential file holds exactly that set.
ReturnedSetIsPersisted ==
    \A r \in Runs :
      (runs[r].pc = "done" /\ runs[r].ret = "set" /\ runs[r].updCalls = 1) =>
        /\ files[cookiesPath].exists
        /\ WellFormed(files[cookiesPath].data)
        /\ ParseFile(files[cookiesPath]) = runs[r].fresh

\* C30: no loadCookies call changes this.cookiesPath: it stays the path
\* given at construction, and saveCookies writes no other file.
LoadKeepsConfiguredPath ==
    [][/\ cookiesPath' = ConfiguredPath
       /\ \A p \in DOMAIN files : files'[p] # files[p] => p = ConfiguredPath]_vars

====
